---- MODULE Spec2Model ----
(***************************************************************************)
(* A model of claude-profiles.mjs: the watch-mode debounce/throttle        *)
(* scheduler (watchProfile, saveProfileSilent, findOrCreateGist) and the   *)
(* one-shot commands (store, restore, delete, verify) with their gates.    *)
(*                                                                         *)
(* Time is counted in whole seconds: Date.now() is the variable now, the   *)
(* source's 30000 ms and 2000 ms are 30 and 2.  Timers are punctual: time  *)
(* does not pass an armed timer's due instant before its callback has run. *)
(***************************************************************************)
EXTENDS Integers, Sequences, FiniteSets, TLC

\* ------------------------------------------------------------------------
\* Program constants
\* ------------------------------------------------------------------------
minSaveInterval == 30
debounceDelay == 2
\* The period of the keychain check, setInterval(..., 5000).
keychainCheckPeriod == 5

\* ------------------------------------------------------------------------
\* Bounds of the model
\* ------------------------------------------------------------------------
\* Change notifications delivered in one run of watch mode.
MaxChanges == 2
\* Longest time (seconds) one saveProfileSilent call stays in flight.
MaxSaveDuration == 2
\* Commands run one after the other against the same account.
MaxCommands == 3
\* Longest content (bytes) of a file the fingerprint reads.
MaxFileLen == 2
\* How far (bytes) below and above the size that reaches a threshold the
\* archive sizes handed to checkArchiveSize range.
MaxSizeWindow == 20
MaxPathLen == 5
MaxScopes == 3

\* Date.now() when watch mode starts: the wall clock is far beyond
\* minSaveInterval, so the first settled change is never throttled against
\* the initial lastSaveTime of 0.
StartTime == minSaveInterval

None == [kind |-> "none", due |-> 0]

VARIABLES
  now,                \* Date.now(), seconds
  status,             \* "running" | "exit0" | "exit1" : the watch process
  lastSaveTime,       \* let lastSaveTime
  pendingSave,        \* let pendingSave
  changeDetected,     \* let changeDetected
  saveCount,          \* let saveCount
  pendingSaveTimeout, \* let pendingSaveTimeout: None, or the last handle stored
  timers,             \* the timers armed in the event loop
  inflight,           \* timer callbacks suspended at an await
  changes,            \* notifications delivered so far
  unsaved,            \* history: a notification no save has started after
  lastDone,           \* history: when the last successful save completed, -1 if none
  successes,          \* history: how many times saveProfileSilent has resolved
  burst,              \* history: the current run of closely spaced notifications
  failLog,            \* history: the last failed save attempt
  keychainCheckInterval, \* let keychainCheckInterval: when it fires next, 0 for null
  console,            \* what console.log and console.error are: "original" or "noop"
  pollLog,            \* history: what the keychain check made of the last keychain change
  deferLog,           \* history: the deferred save scheduled since the last notification
                      \* (wait: the delay it was given plus the time elapsed since lastSaveTime)
  cmd,                \* the invocation: [op, name, log, verbose]
  isMacOS,            \* process.platform === 'darwin'
  pc,                 \* where the one-shot command stands
  exitCode,           \* -1 while it runs, then the exit status
  local,              \* the tree below the home directory
  keychain,           \* the keychain credentials, 0 when there are none
  remote,             \* the backup gists, newest first: name -> blob each
  io,                 \* history: the kinds of I/O performed so far
  rejected,           \* history: validateProfileName threw
  err,                \* message of the Error being handled, NoErr if none
  work,               \* the command's temporaries: temp dir, blob, gate result
  local0,             \* history: local when the command started
  keychain0,          \* history: keychain when the command started
  remote0,            \* history: remote when the command started
  ledger,             \* history: what the successful stores and deletes left,
                      \* and how many commands have run
  sources,            \* the watched sources byte by byte, as calculateFilesHash reads them
  lastHash,           \* let lastHash, with the state of the sources it was taken from
  sizeCheck,          \* the record checkArchiveSize returned last
  invocation,         \* argv as yargs parsed it, and how far the start-up got
  filterCheck,        \* a path and what the two archive filters made of it
  authCheck           \* a token-scopes line and what the two scope checks made of it

watchVars == <<now, status, lastSaveTime, pendingSave, changeDetected, saveCount,
               pendingSaveTimeout, timers, inflight, changes, unsaved, lastDone, successes,
               burst, failLog, deferLog, keychainCheckInterval, pollLog, console>>

pollVars == <<keychainCheckInterval, pollLog>>

\* What only the keychain check and the silent saves touch.
quietVars == <<keychainCheckInterval, pollLog, console>>

cliVars == <<cmd, isMacOS, pc, exitCode, local, keychain, remote, io, rejected, err,
             work, local0, keychain0, remote0, ledger, sources, lastHash, sizeCheck,
             invocation, filterCheck, authCheck>>

\* The results of the pure functions and of the start-up, which no command
\* and no watcher touches.
pureVars == <<sizeCheck, invocation, filterCheck, authCheck>>

vars == <<watchVars, cliVars>>

\* What of the one-shot command's state a running watcher never touches.
cliFixed == <<cmd, isMacOS, pc, exitCode, keychain, io, rejected, err, work,
              local0, keychain0, remote0, ledger, pureVars>>

NoBurst == [ok |-> FALSE, n |-> 0, last |-> 0, starts |-> 0, startedAt |-> 0]
NoDefer == [armed |-> FALSE, base |-> 0, wait |-> 0, due |-> 0,
            fired |-> "no", started |-> FALSE]
NoFail == [path |-> "none", how |-> "none", atStart |-> FALSE, before |-> FALSE,
           after |-> FALSE, baseBefore |-> 0, baseAfter |-> 0]

\* ------------------------------------------------------------------------
\* saveProfileSilent and findOrCreateGist: the outcome of one save attempt
\* as a function of what the environment answers.
\* ------------------------------------------------------------------------
BuildResults == {"ok", "error"}
LookupResults == {"found", "empty", "rateLimit", "network", "otherError"}
CreateResults == {"ok", "okNonZero", "permission", "error", "readmeWriteError"}
UploadResults == {"ok", "http409", "error"}

SaveEnvs == [build : BuildResults, lookup : LookupResults,
             create : CreateResults, upload : UploadResults]

\* "id": a gist id is returned; "exit1": process.exit(1) was called;
\* "throw": writing the readme to the temporary file failed, outside the try.
findOrCreateGist(env) ==
  IF env.lookup = "found" THEN "id"
  ELSE IF env.lookup \in {"rateLimit", "network"} THEN "exit1"
  ELSE IF env.create = "readmeWriteError" THEN "throw"
  ELSE IF env.create \in {"ok", "okNonZero"} THEN "id"
  ELSE "exit1"

\* "ok": resolved; "throw": rejected with an Error; "exit1": the process ended.
saveProfileSilent(env) ==
  IF env.build = "error" THEN "throw"
  ELSE IF findOrCreateGist(env) = "exit1" THEN "exit1"
  ELSE IF findOrCreateGist(env) = "throw" THEN "throw"
  ELSE IF env.upload = "ok" THEN "ok"
  ELSE "throw"

\* ------------------------------------------------------------------------
\* One-shot commands: names, error messages, file trees, the two gates
\* ------------------------------------------------------------------------
LowerCase == {"a", "b", "c", "d", "e", "f", "g", "h", "i", "j", "k", "l", "m",
              "n", "o", "p", "q", "r", "s", "t", "u", "v", "w", "x", "y", "z"}
Digits == {"0", "1", "2", "3", "4", "5", "6", "7", "8", "9"}

\* PROFILE_NAME_REGEX = /^[a-z0-9-]+$/ on a name given as its characters.
PROFILE_NAME_REGEX(name) ==
  /\ Len(name) > 0
  /\ \A i \in 1..Len(name) : name[i] \in LowerCase \cup Digits \cup {"-"}

\* String.prototype.includes on character sequences.
Includes(text, sub) ==
  \E i \in 0..(Len(text) - Len(sub)) :
    \A j \in 1..Len(sub) : text[i + j] = sub[j]

\* String.prototype.endsWith
EndsWith(text, suffix) ==
  /\ Len(text) >= Len(suffix)
  /\ SubSeq(text, Len(text) - Len(suffix) + 1, Len(text)) = suffix

NotFoundChars == <<"n", "o", "t", " ", "f", "o", "u", "n", "d">>

\* An error message is a sequence of segments: fixed text of the source
\* (lit) or an interpolated profile name (chars).
Lit(text) == [lit |-> text, chars |-> <<>>]
Interp(name) == [lit |-> "", chars |-> name]
NoErr == <<>>

MsgInvalidName(name) ==
  <<Lit("Invalid profile name: "), Interp(name),
    Lit(". Only lowercase letters, numbers, and hyphens are allowed.")>>
MsgDeleteNotFound(name) == <<Lit("Profile '"), Interp(name), Lit("' not found")>>
MsgNotFoundInGist(name) ==
  <<Lit("Profile '"), Interp(name), Lit("' not found in gist")>>
MsgProfileNotFound == <<Lit("Profile not found")>>
MsgEmptyDownload == <<Lit("Downloaded profile data is empty")>>
MsgVerificationFailed == <<Lit("Profile verification failed")>>
MsgExtractFailed == <<Lit("Failed to extract profile archive: ")>>
MsgDeleteFailed == <<Lit("Failed to delete profile from gist")>>
MsgUploadFailed == <<Lit("Failed to upload profile to gist: ")>>
MsgHttp409 == <<Lit("HTTP 409: Gist cannot be updated")>>
MsgReadmeWrite == <<Lit("ENOSPC: no space left on device, write")>>
MsgBadJson == <<Lit("Unexpected end of JSON input")>>

\* The fixed texts above that contain "not found".  No match can straddle a
\* segment boundary: no fixed text next to a name ends with a prefix or
\* starts with a suffix of "not found".
LitsWithNotFound == {"' not found", "' not found in gist", "Profile not found"}

\* error.message.includes('not found')
MessageIncludesNotFound(msg) ==
  \E i \in 1..Len(msg) :
    \/ msg[i].lit \in LitsWithNotFound
    \/ Includes(msg[i].chars, NotFoundChars)

ProfileNotFoundChars ==
  <<"P", "r", "o", "f", "i", "l", "e", " ", "n", "o", "t", " ", "f", "o", "u", "n", "d">>

\* error.message.includes('Profile not found')
MessageIncludesProfileNotFound(msg) ==
  \E i \in 1..Len(msg) :
    \/ msg[i].lit = "Profile not found"
    \/ Includes(msg[i].chars, ProfileNotFoundChars)

\* error.message.includes('Profile too large' | 'Rate limit' | 'HTTP 409')
MessageAlreadyDiagnosed(msg) ==
  \E i \in 1..Len(msg) : msg[i].lit = "HTTP 409: Gist cannot be updated"

\* validateProfileName: TRUE, or the Error it throws.
validateProfileName(name) ==
  IF ~PROFILE_NAME_REGEX(name) THEN MsgInvalidName(name) ELSE NoErr

\* Paths below the home directory (local) or below the archive root, as
\* their components.  A tree maps each path to 0 (absent) or to its content;
\* a directory that exists has content 1.
ClaudeDir == <<".claude">>
CredsFile == <<".claude", ".credentials.json">>
NestedDir == <<".claude", ".claude">>
NestedCreds == <<".claude", ".claude", ".credentials.json">>
ConfigFile == <<".claude.json">>
BackupFile == <<".claude.json.backup">>
MacosCreds == <<".macos.credentials.json">>

LocalPaths == {ClaudeDir, CredsFile, NestedDir, NestedCreds, ConfigFile, BackupFile}
ArchivePaths == LocalPaths \cup {MacosCreds}

\* BACKUP_PATHS, by their dest names.
BACKUP_PATHS == <<ClaudeDir, ConfigFile, BackupFile>>

Under(dir, p) == Len(p) >= Len(dir) /\ SubSeq(p, 1, Len(dir)) = dir

EmptyArchive == [p \in ArchivePaths |-> 0]

\* The archive saveProfile / saveProfileSilent build from the local state:
\* archive.directory for ~/.claude, archive.file for the two files, and the
\* keychain credentials as .macos.credentials.json on macOS.
buildArchive(loc, kc, mac) ==
  [p \in ArchivePaths |->
     IF p = MacosCreds THEN (IF mac THEN kc ELSE 0) ELSE loc[p]]

\* hasFiles of saveProfile.
hasFiles(loc, kc, mac) ==
  \/ \E i \in 1..Len(BACKUP_PATHS) : loc[BACKUP_PATHS[i]] # 0
  \/ (mac /\ kc # 0)

\* verifyLocalFiles: on macOS the credentials file is not essential (and not
\* even looked at when the keychain holds credentials); ~/.claude.json is
\* essential; the backup is optional.
verifyLocalFiles(loc, kc, mac) ==
  LET hasKeychainCreds == mac /\ kc # 0
      credsMissing == ~hasKeychainCreds /\ loc[CredsFile] = 0 /\ ~mac
      configMissing == loc[ConfigFile] = 0
  IN [valid |-> ~credsMissing /\ ~configMissing,
      issues |-> (IF credsMissing
                    THEN {"Missing required file: Claude credentials (file)"}
                  ELSE {})
                 \cup (IF configMissing
                        THEN {"Missing required file: Claude configuration"}
                      ELSE {})]

\* What the remote slot holds under one profile name: base64 text that is
\* empty, that does not decode to a zip archive, or an archive.
EmptyBlob == [kind |-> "empty", tree |-> EmptyArchive]
CorruptBlob == [kind |-> "corrupt", tree |-> EmptyArchive]
Zip(tree) == [kind |-> "zip", tree |-> tree]
\* The inline content of a file the API reports as truncated: a cut-off
\* base64 text, which does not decode to a zip archive.
TruncatedBlob == [kind |-> "truncated", tree |-> EmptyArchive]

\* gistData.files[name] of gh api /gists/<id> for a stored blob, with the
\* body the raw_url serves.
fileData(blob, truncated) ==
  [content |-> IF truncated THEN TruncatedBlob ELSE blob,
   truncated |-> truncated,
   raw_url |-> blob]

\* A download that always takes the inline content.
base64DataInline(fd, rawOk) == fd.content

\* base64Data of restoreProfile and verifyProfile: the raw_url body fetched
\* with curl -s (empty output when curl fails) when the file is truncated,
\* the inline content otherwise.
base64Data(fd, rawOk) ==
  IF fd.truncated THEN (IF rawOk THEN fd.raw_url ELSE EmptyBlob) ELSE fd.content

\* What a tree holds at a checked path when the entry is a directory.
DirEntry == -1

\* An existence test that accepts any kind of entry.
isFileAnyEntry(v) == v # 0

\* stat succeeds and stats.isFile().
isFile(v) == v # 0 /\ v # DirEntry

\* A gate whose platform test is inverted.
verifyDownloadedProfileFlipped(blob, mac) ==
  IF blob.kind # "zip"
    THEN [valid |-> FALSE, issues |-> {"Failed to extract profile archive"}]
  ELSE LET credsMissing == mac /\ blob.tree[CredsFile] = 0
           macosMissing == ~mac /\ blob.tree[MacosCreds] = 0
           configMissing == blob.tree[ConfigFile] = 0
       IN [valid |-> ~credsMissing /\ ~macosMissing /\ ~configMissing,
           issues |-> {}]

\* verifyDownloadedProfile: unzip into tempDir/verify, then the essential
\* entries by platform.
verifyDownloadedProfile(blob, mac) ==
  IF blob.kind # "zip"
    THEN [valid |-> FALSE, issues |-> {"Failed to extract profile archive"}]
  ELSE LET credsMissing == ~mac /\ ~isFile(blob.tree[CredsFile])
           macosMissing == mac /\ ~isFile(blob.tree[MacosCreds])
           configMissing == ~isFile(blob.tree[ConfigFile])
       IN [valid |-> ~credsMissing /\ ~macosMissing /\ ~configMissing,
           issues |-> (IF credsMissing
                         THEN {"Missing: Claude credentials (file)"} ELSE {})
                      \cup (IF macosMissing
                             THEN {"Missing: Claude credentials (macOS)"} ELSE {})
                      \cup (IF configMissing
                             THEN {"Missing: Claude configuration"} ELSE {})]

\* A gist maps the stored profile names to their blobs.
NoFiles == [n \in {} |-> EmptyBlob]
WithFile(gist, name, blob) ==
  [n \in DOMAIN gist \cup {name} |-> IF n = name THEN blob ELSE gist[n]]
WithoutFile(gist, name) == [n \in DOMAIN gist \ {name} |-> gist[n]]

\* Whether findOrCreateGist creates a new gist: the lookup returned no id and
\* gh gist create produced one.
gistCreated(env) ==
  /\ env.lookup \notin {"found", "rateLimit", "network"}
  /\ env.create \in {"ok", "okNonZero"}

\* The gists after findOrCreateGist, newest first.
gistAfterLookup(gists, created) == IF created THEN <<NoFiles>> \o gists ELSE gists

\* What one saveProfileSilent call can come to, given the gists that exist:
\* its result and whether its findOrCreateGist created a gist.
SaveOutcomes(gists) ==
  {[result |-> saveProfileSilent(env),
    created |-> env.build = "ok" /\ gistCreated(env)] :
     env \in {e \in SaveEnvs : e.lookup = "found" => Len(gists) > 0}}

\* ------------------------------------------------------------------------
\* calculateFilesHash: the byte stream handed to the SHA-256 digest
\* ------------------------------------------------------------------------
Bytes == {"a", "b"}
Contents(n) == UNION {[1..k -> Bytes] : k \in 0..n}

Absent == [exists |-> FALSE, bytes |-> <<>>]
File(bytes) == [exists |-> TRUE, bytes |-> bytes]

\* A file outside BACKUP_PATHS.
OtherFile == <<".bashrc">>

\* A second regular file inside ~/.claude.
SettingsFile == <<".claude", "settings.json">>

\* The files readdir finds below ~/.claude.
DirFiles == {CredsFile, SettingsFile}

WatchedPaths == {ClaudeDir} \cup DirFiles \cup {ConfigFile, BackupFile}

\* What each entry below the home directory can be: ~/.claude absent or
\* present, the files absent or with some content.
EntryValues(p) ==
  IF p = ClaudeDir THEN {Absent, File(<<>>)}
  ELSE IF p = ConfigFile THEN {Absent} \cup {File(c) : c \in Contents(MaxFileLen)}
  ELSE IF p = BackupFile THEN {Absent, File(<<>>), File(<<"a">>)}
  ELSE IF p = SettingsFile THEN {Absent, File(<<"b">>)}
  ELSE {Absent, File(<<"a">>)}

\* JSON.stringify(keychainCreds)
KeychainJson(kc) == IF kc = 1 THEN <<"{keychain:1}">> ELSE <<"{keychain:2}">>

\* The orders in which readdir(sourcePath, {recursive: true}) can return the
\* entries of ~/.claude, as paths relative to it.
Listings(src) ==
  LET names == {p[2] : p \in {q \in DirFiles : src[q].exists}}
  IN {l \in [1..Cardinality(names) -> names] :
        \A i, j \in 1..Cardinality(names) : l[i] = l[j] => i = j}

\* The first UTF-16 code unit of an entry name, which orders the names of
\* DirFiles as Array.prototype.sort() does without a comparator.
CodeUnit(name) == IF name = ".credentials.json" THEN 46 ELSE 115

RECURSIVE Insert(_, _)
Insert(x, sorted) ==
  IF sorted = <<>> THEN <<x>>
  ELSE IF CodeUnit(x) <= CodeUnit(Head(sorted)) THEN <<x>> \o sorted
  ELSE <<Head(sorted)>> \o Insert(x, Tail(sorted))

\* files.sort() as a value.
RECURSIVE sort(_)
sort(files) == IF files = <<>> THEN <<>> ELSE Insert(Head(files), sort(Tail(files)))

\* A sort that returns a sorted copy and leaves the array as readdir gave it.
filesAfterSortCopied(listing) == listing

\* The array files once files.sort() has run: sort() works in place, so the
\* content loop that follows iterates the sorted array.
filesAfterSort(listing) == sort(listing)

\* Array.prototype.join('|')
RECURSIVE join(_)
join(names) ==
  IF names = <<>> THEN <<>>
  ELSE IF Len(names) = 1 THEN names
  ELSE <<Head(names), "|">> \o join(Tail(names))

\* The hash.update(content) calls of the loop over files: regular files
\* that can be read, in the order of the array.
RECURSIVE fileContents(_, _)
fileContents(src, files) ==
  IF files = <<>> THEN <<>>
  ELSE (IF src[<<".claude", Head(files)>>].exists
          THEN src[<<".claude", Head(files)>>].bytes ELSE <<>>)
       \o fileContents(src, Tail(files))

\* hash.update(...) calls in order, concatenated: for the directory the
\* sorted entry names joined with '|' and then each regular file's content;
\* for a file its content; nothing for a missing source; the keychain JSON
\* on macOS.  Entry names are kept as whole tokens.  listing is the order
\* in which readdir returned the entries.
calculateFilesHash(src, kc, mac, listing) ==
  LET dirPart == IF ~src[ClaudeDir].exists THEN <<>>
                 ELSE join(sort(listing)) \o fileContents(src, filesAfterSort(listing))
      filePart(p) == IF src[p].exists THEN src[p].bytes ELSE <<>>
  IN dirPart \o filePart(ConfigFile) \o filePart(BackupFile)
       \o (IF mac /\ kc # 0 THEN KeychainJson(kc) ELSE <<>>)

\* The fingerprint together with the state it was taken from.
Fingerprint(src, kc, mac, listing) ==
  [of |-> src, stream |-> calculateFilesHash(src, kc, mac, listing)]

\* The sources when watch mode starts.
StartSources ==
  [p \in WatchedPaths \cup {OtherFile} |->
     IF p = ClaudeDir THEN File(<<>>) ELSE
     IF p \in {SettingsFile, BackupFile, OtherFile} THEN Absent ELSE File(<<"a">>)]

\* ------------------------------------------------------------------------
\* checkArchiveSize: the size categories of an archive
\* ------------------------------------------------------------------------
GIST_SIZE_LIMIT_API == 40 * 1024 * 1024
GIST_SIZE_LIMIT_WEB == 20 * 1024 * 1024
GIST_SIZE_WARNING == 10 * 1024 * 1024

\* Math.ceil(originalBytes * 1.33).  The double product is the exact integer
\* whenever 1.33 * originalBytes is one (the error of the constant, below
\* 5.4e-17 relative, is less than half an ulp) and is otherwise at least
\* 0.01 away from an integer, so the result is the ceiling of the exact
\* product: originalBytes + ceil(0.33 * originalBytes).
calculateBase64Size(originalBytes) == originalBytes + (33 * originalBytes + 99) \div 100

\* The length of zipBuffer.toString('base64'): four characters for every
\* three bytes, the last group padded.
base64Length(bytes) == 4 * ((bytes + 2) \div 3)

\* A check whose web-interface ceiling lies above the API ceiling.
checkArchiveSizeWebAbove(sizeBytes) ==
  LET actualSize == calculateBase64Size(sizeBytes)
  IN [size |-> sizeBytes,
      actualUploadSize |-> actualSize,
      withinLimit |-> actualSize <= GIST_SIZE_LIMIT_API,
      isLarge |-> actualSize > GIST_SIZE_WARNING,
      exceedsWebLimit |-> actualSize > GIST_SIZE_LIMIT_API + GIST_SIZE_WARNING,
      exceedsApiLimit |-> actualSize > GIST_SIZE_LIMIT_API]

checkArchiveSize(sizeBytes) ==
  LET actualSize == calculateBase64Size(sizeBytes)
  IN [size |-> sizeBytes,
      actualUploadSize |-> actualSize,
      withinLimit |-> actualSize <= GIST_SIZE_LIMIT_API,
      isLarge |-> actualSize > GIST_SIZE_WARNING,
      exceedsWebLimit |-> actualSize > GIST_SIZE_LIMIT_WEB,
      exceedsApiLimit |-> actualSize > GIST_SIZE_LIMIT_API]

\* Archive sizes around the sizes whose encoding reaches each threshold.
ArchiveSizes ==
  UNION {{limit - (33 * limit) \div 133 + d : d \in (0 - MaxSizeWindow)..MaxSizeWindow} :
           limit \in {GIST_SIZE_WARNING, GIST_SIZE_LIMIT_WEB, GIST_SIZE_LIMIT_API}}

\* ------------------------------------------------------------------------
\* The command line: yargs options, .check, the main dispatch
\* ------------------------------------------------------------------------
MainOptionNames == <<"list", "store", "restore", "delete", "verify", "watch">>

\* What yargs leaves in argv for a string option: undefined when the option
\* is not given, the empty string when it is given without a value (or with
\* an empty one), the value otherwise.
OptionValues == {"undefined", "", "w"}

\* argv with no main option given.  --list is a boolean option: true when
\* given, undefined otherwise (written here as their texts).
NoArgv == [list |-> "undefined", store |-> "undefined", restore |-> "undefined",
           delete |-> "undefined", verify |-> "undefined", watch |-> "undefined"]

Argvs == [list : {"undefined", "true"}, store : OptionValues, restore : OptionValues,
          delete : OptionValues, verify : OptionValues, watch : OptionValues]

\* Boolean(value) for the values above.
Truthy(v) == v \notin {"undefined", ""}

\* [argv.list, argv.store, argv.restore, argv.delete, argv.verify,
\*  argv.watch].filter(Boolean), by option name.
mainOptions(argv) ==
  LET given(i) == Truthy(argv[MainOptionNames[i]])
  IN SelectSeq([i \in 1..Len(MainOptionNames) |-> IF given(i) THEN MainOptionNames[i]
                                                   ELSE ""],
               LAMBDA n : n # "")

\* The operations the main block runs, in order: the first truthy option of
\* its if / else-if chain and nothing after it.
dispatch(argv) ==
  IF Truthy(argv.list) THEN <<"list">>
  ELSE IF Truthy(argv.store) THEN <<"store">>
  ELSE IF Truthy(argv.restore) THEN <<"restore">>
  ELSE IF Truthy(argv.delete) THEN <<"delete">>
  ELSE IF Truthy(argv.verify) THEN <<"verify">>
  ELSE IF Truthy(argv.watch) THEN <<"watch">>
  ELSE <<>>

\* ------------------------------------------------------------------------
\* Watch mode
\* ------------------------------------------------------------------------
\* The watched sources as watch mode finds them when it starts, and with
\* every source removed.
WatchedFull ==
  [p \in LocalPaths |-> IF p \in {ClaudeDir, CredsFile, ConfigFile} THEN 1 ELSE 0]
WatchedNone == [p \in LocalPaths |-> 0]

\* States of the watched sources a change notification can report.
WatchLocals == {WatchedFull, WatchedNone}

\* The bytes calculateFilesHash reads for a tree of the home directory.
SourcesOf(loc) ==
  [p \in WatchedPaths \cup {OtherFile} |->
     IF p \notin LocalPaths \/ loc[p] = 0 THEN Absent
     ELSE IF p = ClaudeDir THEN File(<<>>)
     ELSE IF loc[p] = 1 THEN File(<<"a">>)
     ELSE File(<<"b">>)]

\* currentHash !== lastHash, for the fingerprint calculateFilesHash would
\* return now.
hashChanged ==
  \E listing \in Listings(sources) :
    calculateFilesHash(sources, keychain, isMacOS, listing) # lastHash.stream

Saving == {h \in inflight : h.phase = "saving"}

\* A handler that forgets to cancel the timer it replaces.
clearTimeoutForgotten(handle) == timers

clearTimeout(handle) == timers \ {handle}

\* console.log and console.error after the lines that follow the awaited
\* save: if (!isVerbose) { console.log = originalLog; ... }.
consoleAfterSave(originalLog, current) == IF ~cmd.verbose THEN originalLog ELSE current

\* A catch block that leaves the flag alone on both paths.
pendingSaveAfterCatchKept(path, flag) == flag

\* pendingSave once the catch block of a failed attempt has run: the
\* immediate path's catch only logs, the deferred path's also clears the flag.
pendingSaveAfterCatch(path, flag) == IF path = "immediate" THEN flag ELSE FALSE

\* A catch block that stamps the failed attempt as if it had succeeded.
lastSaveTimeAfterCatchStamped(old, started) == started

\* lastSaveTime once the catch block of a failed attempt has run: neither
\* catch block assigns it.
lastSaveTimeAfterCatch(old, started) == old

Quiet == timers = {} /\ Saving = {} /\ now - lastSaveTime >= minSaveInterval

InitSchedule ==
  /\ now = StartTime
  /\ status = "running"
  /\ lastSaveTime = 0
  /\ pendingSave = FALSE
  /\ changeDetected = FALSE
  /\ saveCount = 0
  /\ pendingSaveTimeout = None
  /\ timers = {}
  /\ inflight = {}
  /\ changes = 0
  /\ unsaved = FALSE
  /\ lastDone = -1
  /\ successes = 0
  /\ burst = NoBurst
  /\ failLog = NoFail
  /\ deferLog = NoDefer
  /\ pollLog = "idle"
  /\ console = "original"

\* ------------------------------------------------------------------------
\* The archive file filters of the examples.  A path is a sequence of
\* tokens, the separator or a piece of a name, as readdir returns it on a
\* POSIX system: relative, without empty components.
\* ------------------------------------------------------------------------
Sep == "/"
PathTokens == {Sep, ".claude", "projects", "a"}

FilePaths ==
  {f \in UNION {[1..n -> PathTokens] : n \in 1..MaxPathLen} :
     /\ f[1] # Sep
     /\ f[Len(f)] # Sep
     /\ \A i \in 1..(Len(f) - 1) : ~(f[i] = Sep /\ f[i + 1] = Sep)}

\* String.prototype.startsWith
StartsWith(text, prefix) ==
  /\ Len(text) >= Len(prefix)
  /\ SubSeq(text, 1, Len(prefix)) = prefix

\* file.split(/[/\\]/)
RECURSIVE pathParts(_)
pathParts(file) ==
  IF \A i \in 1..Len(file) : file[i] # Sep THEN <<file>>
  ELSE LET i == CHOOSE k \in 1..Len(file) :
                  file[k] = Sep /\ \A m \in 1..(k - 1) : file[m] # Sep
       IN <<SubSeq(file, 1, i - 1)>> \o pathParts(SubSeq(file, i + 1, Len(file)))

\* The filter callback of testFiltering in test-restore-watch.sh.
testFiltering(file) ==
  /\ ~StartsWith(file, <<"projects", Sep>>)
  /\ ~\E i \in 1..Len(pathParts(file)) : pathParts(file)[i] = <<".claude">> /\ i > 1

\* The filter callback of test_size_calculation.js.
filteredFiles(file) ==
  IF StartsWith(file, <<"projects", Sep>>) THEN FALSE
  ELSE IF StartsWith(file, <<".claude", Sep>>) \/ file = <<".claude">> THEN TRUE
  ELSE IF \/ Includes(file, <<Sep, ".claude", Sep>>)
          \/ EndsWith(file, <<Sep, ".claude">>)
    THEN FALSE
  ELSE TRUE

NoFilterCheck == [file |-> <<"a">>, filteredFiles |-> TRUE, testFiltering |-> TRUE]

\* files.filter(file => ...) on one path.
applyFilter ==
  /\ \E file \in FilePaths :
       filterCheck' = [file |-> file, filteredFiles |-> filteredFiles(file),
                       testFiltering |-> testFiltering(file)]
  /\ filterCheck' # filterCheck
  /\ UNCHANGED <<watchVars, cmd, isMacOS, pc, exitCode, local, keychain, remote, io,
                 rejected, err, work, local0, keychain0, remote0, ledger, sources,
                 lastHash, sizeCheck, invocation, authCheck>>

\* ------------------------------------------------------------------------
\* The token-scopes line of gh auth status and the two checks made on it.
\* The line is the scopes it lists, in order, each a sequence of name
\* pieces, printed in single quotes (as gh prints them) or bare.
\* ------------------------------------------------------------------------
ScopeNames == {<<"gist">>, <<"repo">>, <<"read:org">>, <<"gist", "s">>}

ScopeLines ==
  [quoted : BOOLEAN, scopes : UNION {[1..n -> ScopeNames] : n \in 1..MaxScopes}]

\* output.match(/Token scopes:\s*'([^']+)'/): the first quoted scope, when
\* the text after the label starts with a quote.
firstQuotedScope(line) == IF line.quoted THEN <<line.scopes[1]>> ELSE <<>>

\* checkGitHubAuth: scopesMatch && !scopesMatch[1].includes('gist')
warnsNoGistScope(line) ==
  LET scopesMatch == firstQuotedScope(line)
  IN scopesMatch # <<>> /\ ~Includes(scopesMatch[1], <<"gist">>)

\* getDetailedAuthStatus: every quoted scope with its quotes removed, or the
\* comma-separated pieces trimmed when none is quoted; then
\* details.scopes.includes('gist').
hasGistScope(line) ==
  LET scopes == line.scopes
  IN \E i \in 1..Len(scopes) : scopes[i] = <<"gist">>

NoAuthCheck == [line |-> [quoted |-> TRUE, scopes |-> <<<<"gist">>>>],
                warned |-> FALSE, hasGistScope |-> TRUE]

\* gh auth status printed one token-scopes line; both checks read it.
checkScopes ==
  /\ \E line \in ScopeLines :
       authCheck' = [line |-> line, warned |-> warnsNoGistScope(line),
                     hasGistScope |-> hasGistScope(line)]
  /\ authCheck' # authCheck
  /\ UNCHANGED <<watchVars, cmd, isMacOS, pc, exitCode, local, keychain, remote, io,
                 rejected, err, work, local0, keychain0, remote0, ledger, sources,
                 lastHash, sizeCheck, invocation, filterCheck>>

\* const result = checkArchiveSize(size)
checkSize ==
  /\ \E sizeBytes \in ArchiveSizes : sizeCheck' = checkArchiveSize(sizeBytes)
  /\ sizeCheck' # sizeCheck
  /\ UNCHANGED <<watchVars, cmd, isMacOS, pc, exitCode, local, keychain, remote, io,
                 rejected, err, work, local0, keychain0, remote0, ledger, sources,
                 lastHash, invocation, filterCheck, authCheck>>

\* The .check callback of yargs: a throw makes yargs print the message and
\* exit with status 1 before the main block runs.
yargsCheck ==
  /\ invocation.stage = "check"
  /\ invocation' = IF Len(mainOptions(invocation.argv)) # 1
                      THEN [invocation EXCEPT !.stage = "rejected", !.exitCode = 1]
                    ELSE [invocation EXCEPT !.stage = "main"]
  /\ UNCHANGED <<watchVars, cmd, isMacOS, pc, exitCode, local, keychain, remote, io,
                 rejected, err, work, local0, keychain0, remote0, ledger, sources,
                 lastHash, sizeCheck, filterCheck, authCheck>>

\* The if / else-if chain of the main block, after checkGitHubAuth.
mainDispatch ==
  /\ invocation.stage = "main"
  /\ invocation' = [invocation EXCEPT !.stage = "dispatched",
                                      !.ran = dispatch(invocation.argv)]
  /\ UNCHANGED <<watchVars, cmd, isMacOS, pc, exitCode, local, keychain, remote, io,
                 rejected, err, work, local0, keychain0, remote0, ledger, sources,
                 lastHash, sizeCheck, filterCheck, authCheck>>

InitFingerprint ==
  /\ sources = StartSources
  /\ lastHash = Fingerprint(StartSources, 0, FALSE, <<".credentials.json">>)

\* let keychainCheckInterval = null, off macOS.
InitPure ==
  /\ keychainCheckInterval = 0
  /\ sizeCheck = checkArchiveSize(0)
  /\ filterCheck = NoFilterCheck
  /\ authCheck = NoAuthCheck
  /\ InitFingerprint
  /\ InitSchedule

InitWatch ==
  /\ InitPure
  /\ invocation = [argv |-> [NoArgv EXCEPT !.watch = "w"], stage |-> "dispatched",
                   ran |-> <<"watch">>, exitCode |-> -1]

\* One entry below the home directory is created, removed or rewritten;
\* removing ~/.claude takes its content with it.
sourcesChange ==
  /\ \E p \in WatchedPaths \cup {OtherFile} : \E v \in EntryValues(p) :
       /\ v # sources[p]
       /\ (p \in DirFiles /\ v.exists) => sources[ClaudeDir].exists
       /\ sources' = IF p = ClaudeDir /\ ~v.exists
                       THEN [sources EXCEPT ![ClaudeDir] = Absent, ![CredsFile] = Absent,
                                            ![SettingsFile] = Absent]
                     ELSE [sources EXCEPT ![p] = v]
  /\ UNCHANGED <<watchVars, cmd, isMacOS, pc, exitCode, local, keychain, remote, io,
                 rejected, err, work, local0, keychain0, remote0, ledger, lastHash,
                 pureVars>>

\* lastHash = await calculateFilesHash()
takeFingerprint ==
  /\ \E listing \in Listings(sources) :
       lastHash' = Fingerprint(sources, keychain, isMacOS, listing)
  /\ lastHash' # lastHash
  /\ UNCHANGED <<watchVars, cmd, isMacOS, pc, exitCode, local, keychain, remote, io,
                 rejected, err, work, local0, keychain0, remote0, ledger, sources,
                 pureVars>>

\* The keychain credentials change while a save is in flight, after its
\* archive was built.
keychainChanges ==
  /\ status = "running"
  /\ isMacOS
  /\ Saving # {}
  /\ keychain = 1
  /\ keychain' = 2
  /\ pollLog' = "pending"
  /\ UNCHANGED <<cmd, isMacOS, pc, exitCode, local, remote, io, rejected, err, work,
                 local0, keychain0, remote0, ledger, sources, lastHash, pureVars>>
  /\ UNCHANGED <<now, status, lastSaveTime, pendingSave, changeDetected, saveCount,
                 pendingSaveTimeout, timers, inflight, changes, unsaved, lastDone, successes,
                 burst, failLog, deferLog, keychainCheckInterval, console>>

\* The setInterval callback of the keychain check: the fingerprint is
\* computed and compared with lastHash; a difference is recorded in
\* lastHash and handed to handleFileChange.
keychainCheck ==
  /\ status = "running"
  /\ keychainCheckInterval # 0
  /\ keychainCheckInterval <= now
  /\ keychainCheckInterval' = keychainCheckInterval + keychainCheckPeriod
  /\ pollLog' = IF pollLog # "pending" THEN pollLog
                ELSE IF hashChanged THEN "triggered" ELSE "unchanged"
  /\ UNCHANGED <<cliFixed, local, remote, sources>>
  /\ IF hashChanged
       THEN /\ \E listing \in Listings(sources) :
                 lastHash' = Fingerprint(sources, keychain, isMacOS, listing)
            /\ changeDetected' = TRUE
            /\ LET t == [kind |-> "debounce", due |-> now + debounceDelay]
               IN /\ timers' = clearTimeout(pendingSaveTimeout) \cup {t}
                  /\ pendingSaveTimeout' = t
            /\ unsaved' = TRUE
            /\ burst' = NoBurst
            /\ deferLog' = NoDefer
     ELSE UNCHANGED <<lastHash, changeDetected, timers, pendingSaveTimeout, unsaved,
                      burst, deferLog>>
  /\ UNCHANGED <<now, status, lastSaveTime, pendingSave, saveCount, inflight, changes,
                 lastDone, successes, failLog, console>>

\* The body of handleFileChange(eventType, filename): the settle timer is
\* restarted.
notification ==
  /\ changes < MaxChanges
  /\ changes' = changes + 1
  /\ changeDetected' = TRUE
  /\ LET t == [kind |-> "debounce", due |-> now + debounceDelay]
     IN /\ timers' = clearTimeout(pendingSaveTimeout) \cup {t}
        /\ pendingSaveTimeout' = t
  /\ unsaved' = TRUE
  /\ burst' = IF burst.ok /\ burst.starts = 0 /\ now < burst.last + debounceDelay
                THEN [burst EXCEPT !.last = now, !.n = burst.n + 1]
              ELSE IF Quiet
                THEN [ok |-> TRUE, n |-> 1, last |-> now, starts |-> 0, startedAt |-> 0]
              ELSE NoBurst
  /\ deferLog' = NoDefer
  /\ UNCHANGED <<now, status, lastSaveTime, pendingSave, saveCount, inflight,
                 lastDone, successes, failLog>>

\* A watcher reports a change of the sources it watches.
handleFileChange ==
  /\ status = "running"
  /\ UNCHANGED quietVars
  /\ local' \in WatchLocals
  /\ sources' = SourcesOf(local')
  /\ UNCHANGED <<cliFixed, remote, lastHash>>
  /\ notification

\* The backup paths that got a watcher at start-up: fs.watch is called for
\* those whose stat succeeded, recursively for a directory.
watchers(atStart) == {i \in 1..Len(BACKUP_PATHS) : atStart[BACKUP_PATHS[i]] # 0}

\* Whether a change of path p reaches the callback of some watcher.
Watched(p, atStart) ==
  \E i \in watchers(atStart) :
    \/ BACKUP_PATHS[i] = p
    \/ BACKUP_PATHS[i] = ClaudeDir /\ Under(ClaudeDir, p)

\* A source is created or rewritten while watch mode runs; the watcher that
\* covers it, if there is one, calls handleFileChange.
fsChange ==
  /\ status = "running"
  /\ UNCHANGED quietVars
  /\ UNCHANGED <<cliFixed, remote, lastHash>>
  /\ \E p \in {ClaudeDir, CredsFile, ConfigFile, BackupFile} :
     \E v \in {1, 2} :
       /\ v # local[p]
       /\ p = ClaudeDir => local[p] = 0
       /\ p = CredsFile => local[ClaudeDir] # 0
       /\ local' = [local EXCEPT ![p] = v]
       /\ sources' = SourcesOf(local')
       /\ IF Watched(p, local0)
            THEN notification
          ELSE UNCHANGED <<now, status, lastSaveTime, pendingSave, changeDetected,
                           saveCount, pendingSaveTimeout, timers, inflight, changes,
                           unsaved, lastDone, successes, burst, failLog, deferLog>>

\* A save attempt begins: the callback is suspended in saveProfileSilent.
StartSave(path) ==
  /\ inflight' = inflight \cup
       {[path |-> path, started |-> now, phase |-> "saving",
         doneBefore |-> lastDone, pendingAtStart |-> pendingSave,
         archive |-> buildArchive(local, keychain, isMacOS),
         changed |-> hashChanged,
         originalLog |-> console]}
  /\ console' = IF ~cmd.verbose THEN "noop" ELSE console
  /\ unsaved' = FALSE
  /\ burst' = IF burst.ok
                THEN [burst EXCEPT !.starts = burst.starts + 1, !.startedAt = now]
              ELSE burst

\* The settle timer's callback, up to its first await.
debounceCallback ==
  /\ status = "running"
  /\ UNCHANGED pollVars
  /\ UNCHANGED cliVars
  /\ \E t \in timers :
       /\ t.kind = "debounce"
       /\ t.due <= now
       /\ IF ~changeDetected
            THEN /\ timers' = timers \ {t}
                 /\ UNCHANGED <<changeDetected, pendingSave, pendingSaveTimeout,
                                inflight, unsaved, burst, deferLog, console>>
          ELSE /\ changeDetected' = FALSE
               /\ IF now - lastSaveTime >= minSaveInterval
                    THEN /\ timers' = timers \ {t}
                         /\ UNCHANGED <<pendingSave, pendingSaveTimeout, deferLog>>
                         /\ StartSave("immediate")
                  ELSE IF ~pendingSave
                    THEN LET timeToWait == minSaveInterval - (now - lastSaveTime)
                             d == [kind |-> "deferred", due |-> now + timeToWait]
                         IN /\ pendingSave' = TRUE
                            /\ timers' = (timers \ {t}) \cup {d}
                            /\ pendingSaveTimeout' = d
                            /\ deferLog' = [armed |-> TRUE, base |-> lastSaveTime,
                                            wait |-> timeToWait + (now - lastSaveTime),
                                            due |-> d.due, fired |-> "no",
                                            started |-> FALSE]
                            /\ UNCHANGED <<inflight, unsaved, burst, console>>
                  ELSE /\ timers' = timers \ {t}
                       /\ UNCHANGED <<pendingSave, pendingSaveTimeout, inflight,
                                      unsaved, burst, deferLog, console>>
  /\ UNCHANGED <<now, status, lastSaveTime, saveCount, changes, lastDone, successes, failLog>>

\* The deferred timer's callback, up to its first await.
deferredCallback ==
  /\ status = "running"
  /\ UNCHANGED pollVars
  /\ UNCHANGED cliVars
  /\ \E t \in timers :
       /\ t.kind = "deferred"
       /\ t.due <= now
       /\ timers' = timers \ {t}
       /\ deferLog' = [deferLog EXCEPT
                        !.fired = IF now = t.due THEN "onTime" ELSE "late",
                        !.started = pendingSave]
       /\ IF pendingSave
            THEN StartSave("deferred")
          ELSE UNCHANGED <<inflight, unsaved, burst, console>>
  /\ UNCHANGED <<now, status, lastSaveTime, pendingSave, changeDetected, saveCount,
                 pendingSaveTimeout, changes, lastDone, successes, failLog>>

\* await saveProfileSilent(profileName) resolves: the callback runs on to its
\* next await, calculateFilesHash().
saveResolved(h, created) ==
  /\ remote' = [gistAfterLookup(remote, created) EXCEPT
                  ![1] = WithFile(@, cmd.name, Zip(h.archive))]
  /\ console' = consoleAfterSave(h.originalLog, console)
  /\ lastSaveTime' = IF h.path = "immediate" THEN h.started ELSE now
  /\ inflight' = (inflight \ {h}) \cup {[h EXCEPT !.phase = "hashing"]}
  /\ lastDone' = now
  /\ successes' = successes + 1
  /\ UNCHANGED <<now, status, pendingSave, changeDetected, saveCount,
                 pendingSaveTimeout, timers, changes, unsaved, burst, failLog, deferLog>>

\* await saveProfileSilent(profileName) rejects: the catch block.
saveRejected(h, created) ==
  /\ remote' = gistAfterLookup(remote, created)
  /\ UNCHANGED console
  /\ pendingSave' = pendingSaveAfterCatch(h.path, pendingSave)
  /\ inflight' = inflight \ {h}
  /\ lastSaveTime' = lastSaveTimeAfterCatch(lastSaveTime, h.started)
  /\ failLog' = [path |-> h.path, how |-> "caught", atStart |-> h.pendingAtStart,
                 before |-> pendingSave, after |-> pendingSave',
                 baseBefore |-> lastSaveTime, baseAfter |-> lastSaveTime']
  /\ UNCHANGED <<now, status, changeDetected, saveCount,
                 pendingSaveTimeout, timers, changes, unsaved, lastDone, successes, burst, deferLog>>

\* process.exit(1) inside findOrCreateGist, called from saveProfileSilent.
saveExited(h) ==
  /\ status' = "exit1"
  /\ UNCHANGED <<remote, console>>
  /\ failLog' = [path |-> h.path, how |-> "exit", atStart |-> h.pendingAtStart,
                 before |-> pendingSave, after |-> pendingSave,
                 baseBefore |-> lastSaveTime, baseAfter |-> lastSaveTime]
  /\ UNCHANGED <<now, lastSaveTime, pendingSave, changeDetected, saveCount,
                 pendingSaveTimeout, timers, inflight, changes, unsaved, lastDone, successes,
                 burst, deferLog>>

\* One save attempt ends, with whatever the environment answered.
SaveEnds ==
  /\ status = "running"
  /\ UNCHANGED pollVars
  /\ UNCHANGED <<cliFixed, local, sources, lastHash>>
  /\ \E h \in Saving : \E r \in SaveOutcomes(remote) :
       IF r.result = "ok" THEN saveResolved(h, r.created)
       ELSE IF r.result = "throw" THEN saveRejected(h, r.created)
       ELSE saveExited(h)

\* await calculateFilesHash() resolves: the rest of the try block.
hashResolved ==
  /\ status = "running"
  /\ UNCHANGED quietVars
  /\ UNCHANGED <<cliFixed, local, remote, sources>>
  /\ \E listing \in Listings(sources) :
       lastHash' = Fingerprint(sources, keychain, isMacOS, listing)
  /\ \E h \in inflight :
       /\ h.phase = "hashing"
       /\ saveCount' = saveCount + 1
       /\ pendingSave' = FALSE
       /\ inflight' = inflight \ {h}
  /\ UNCHANGED <<now, status, lastSaveTime, changeDetected, pendingSaveTimeout,
                 timers, changes, unsaved, lastDone, successes, burst, failLog, deferLog>>

\* process.on('SIGINT', ...)
sigint ==
  /\ status = "running"
  /\ UNCHANGED quietVars
  /\ UNCHANGED cliVars
  /\ timers' = IF pendingSaveTimeout # None THEN clearTimeout(pendingSaveTimeout)
               ELSE timers
  /\ status' = "exit0"
  /\ UNCHANGED <<now, lastSaveTime, pendingSave, changeDetected, saveCount,
                 pendingSaveTimeout, inflight, changes, unsaved, lastDone, successes, burst,
                 failLog, deferLog>>

\* One second passes.  A save attempt lasts at most MaxSaveDuration; the
\* fingerprint after a save is computed within the second.
Tick ==
  /\ status = "running"
  /\ UNCHANGED quietVars
  /\ UNCHANGED cliVars
  /\ \A t \in timers : t.due > now
  /\ keychainCheckInterval # 0 => keychainCheckInterval > now
  /\ \A h \in inflight : h.phase = "saving" /\ now - h.started < MaxSaveDuration
  /\ \/ timers # {}
     \/ inflight # {}
     \/ pollLog = "pending"
     \/ /\ changes < MaxChanges
        /\ now - lastSaveTime < minSaveInterval + MaxSaveDuration
  /\ now' = now + 1
  /\ UNCHANGED <<status, lastSaveTime, pendingSave, changeDetected, saveCount,
                 pendingSaveTimeout, timers, inflight, changes, unsaved, lastDone, successes,
                 burst, failLog, deferLog>>

\* ------------------------------------------------------------------------
\* One-shot commands: main dispatch, saveProfile, restoreProfile,
\* deleteProfile, verifyProfile, and watchProfile up to its watchers
\* ------------------------------------------------------------------------
Str_w == <<"w">>
Str_hw == <<"h", "w">>
Str_Work_1 == <<"W", "o", "r", "k", "_", "1">>
Str_not_found == NotFoundChars

\* Profile names given on the command line.
ProfileNames == {Str_w, Str_hw, Str_Work_1, Str_not_found}
Ops == {"store", "restore", "delete", "verify", "watch", "list"}

Ext == <<".", "z", "i", "p", ".", "b", "a", "s", "e", "6", "4">>
FileName(name) == name \o Ext

\* The readme every backup gist is created with.
ReadmeFile == <<"c", "l", "a", "u", "d", "e", "-", "p", "r", "o", "f", "i", "l", "e",
                "s", "-", "r", "e", "a", "d", "m", "e", ".", "m", "d">>

RECURSIVE SetToSeq(_)
SetToSeq(S) ==
  IF S = {} THEN <<>>
  ELSE LET x == CHOOSE y \in S : TRUE IN <<x>> \o SetToSeq(S \ {x})

\* The lines of gh gist view --files.
GistFiles(gist) ==
  LET names == SetToSeq(DOMAIN gist)
  IN <<ReadmeFile>> \o [i \in 1..Len(names) |-> FileName(names[i])]

\* String.prototype.replace(sub, ''): the first occurrence is removed.
ReplaceFirst(text, sub) ==
  IF ~Includes(text, sub) THEN text
  ELSE LET at(i) == \A j \in 1..Len(sub) : text[i + j] = sub[j]
           i == CHOOSE k \in 0..(Len(text) - Len(sub)) :
                  at(k) /\ \A m \in 0..(k - 1) : ~at(m)
       IN SubSeq(text, 1, i) \o SubSeq(text, i + Len(sub) + 1, Len(text))

\* The names listProfiles prints: the lines that end with .zip.base64, with
\* that text removed.
listProfiles(gist) ==
  LET isProfile(f) == EndsWith(f, Ext)
      files == SelectSeq(GistFiles(gist), isProfile)
  IN [i \in 1..Len(files) |-> ReplaceFirst(files[i], Ext)]

\* stdout.includes(`${profileName}.zip.base64`) on the output of
\* gh gist view --files, one file name per line.
ListingIncludes(gist, name) ==
  \E n \in DOMAIN gist : Includes(FileName(n), FileName(name))

NoWork == [tmp |-> 0, blob |-> EmptyBlob, found |-> FALSE, downloaded |-> FALSE,
           gate |-> "none", inCatch |-> FALSE, truncated |-> FALSE, viaRaw |-> FALSE,
           issues |-> {}, transportFailed |-> FALSE, report |-> "none",
           listed |-> FALSE, names |-> <<>>]

Cur == [pc |-> pc, exitCode |-> exitCode, local |-> local, keychain |-> keychain,
        remote |-> remote, io |-> io, rejected |-> rejected, err |-> err,
        work |-> work, ledger |-> ledger]

Become(n) ==
  /\ pc' = n.pc
  /\ exitCode' = n.exitCode
  /\ local' = n.local
  /\ keychain' = n.keychain
  /\ remote' = n.remote
  /\ io' = n.io
  /\ rejected' = n.rejected
  /\ err' = n.err
  /\ work' = n.work
  /\ ledger' = n.ledger
  /\ UNCHANGED <<cmd, isMacOS, local0, keychain0, remote0, sources, lastHash, pureVars>>
  /\ UNCHANGED watchVars

\* process.exit(code), or the command returning normally (code 0).
Exit(st, code) == [st EXCEPT !.pc = "done", !.exitCode = code]
\* throw new Error(msg) inside the command's try block.
Throw(st, msg) == [st EXCEPT !.pc = "catch", !.err = msg]
Did(st, kinds) == [st EXCEPT !.io = st.io \cup kinds]

RemoteKinds == {"remoteLookup", "remoteCreate", "remoteList", "remoteRead",
                "remoteRaw", "remoteWrite", "remoteDelete"}

\* The main async block up to the dispatch: initLogging, checkGitHubAuth.
cliMain ==
  /\ pc = "main"
  /\ \E authenticated \in BOOLEAN :
       LET st == Did(Cur, (IF cmd.log THEN {"logFile"} ELSE {}) \cup {"ghAuth"})
       IN IF authenticated
            THEN Become([st EXCEPT !.pc = "validate"])
          ELSE Become(Exit(st, 1))

\* validateProfileName(profileName), the first statement of every command
\* that takes a name; listProfiles takes none.
cliValidate ==
  /\ pc = "validate"
  /\ LET e == IF cmd.op = "list" THEN NoErr ELSE validateProfileName(cmd.name)
     IN IF e # NoErr
          THEN Become([Throw(Cur, e) EXCEPT !.rejected = TRUE])
        ELSE Become([Cur EXCEPT !.pc = IF cmd.op \in {"store", "watch"}
                                         THEN "verifyLocal" ELSE "gist"])

\* Whether findOrCreateGist met a failure of the remote store: a failed
\* lookup (which reads as empty output when gh reports nothing on stdout),
\* or a failed creation.
lookupFailed(env, gists) ==
  \/ env.lookup \in {"rateLimit", "network", "otherError"}
  \/ env.lookup = "empty" /\ Len(gists) > 0
  \/ env.lookup # "found" /\ env.create \notin {"ok", "okNonZero"}

GistEnvs == [lookup : LookupResults, create : CreateResults]

\* await findOrCreateGist() in a command, and in listProfiles() when
\* deleteProfile's catch block calls it.
cliGist ==
  /\ pc \in {"gist", "catchGist"}
  /\ \E env \in GistEnvs :
       /\ env.lookup = "found" => Len(remote) > 0
       /\ LET st == Did([Cur EXCEPT !.remote = gistAfterLookup(remote, gistCreated(env)),
                                     !.work.transportFailed =
                                        @ \/ lookupFailed(env, remote)],
                        {"remoteLookup"} \cup
                        (IF env.lookup \in {"found", "rateLimit", "network"}
                           THEN {} ELSE {"remoteCreate"}))
          IN IF findOrCreateGist(env) = "exit1"
               THEN Become(Exit(st, 1))
             ELSE IF findOrCreateGist(env) = "throw"
               THEN IF pc = "catchGist"
                      THEN Become(Exit(Did(st, {"ghAuth"}), 1))
                    ELSE Become(Throw(st, MsgReadmeWrite))
             ELSE Become([st EXCEPT !.pc = IF pc = "catchGist" THEN "catchList"
                                           ELSE IF cmd.op = "list" THEN "catchList"
                                           ELSE IF cmd.op = "store" THEN "upload"
                                           ELSE "list"])

\* gh gist view --files and the existence check of restore, verify, delete.
\* A listing that fails yields empty output.
cliList ==
  /\ pc = "list"
  /\ \E ok \in BOOLEAN :
       LET listing == IF ok THEN remote[1] ELSE NoFiles
           st == Did([Cur EXCEPT !.work.tmp = IF cmd.op = "delete" THEN 0 ELSE 1,
                                 !.work.transportFailed = @ \/ ~ok],
                     {"remoteList"})
       IN IF cmd.op = "restore"
            THEN IF ~ListingIncludes(listing, cmd.name)
                   THEN Become(Throw([st EXCEPT !.work.report = "notFound",
                                                !.work.listed = TRUE],
                                     MsgProfileNotFound))
                 ELSE Become([st EXCEPT !.pc = "download", !.work.found = TRUE])
          ELSE IF cmd.op = "verify"
            THEN IF ~ListingIncludes(listing, cmd.name)
                   THEN Become(Throw([st EXCEPT !.work.tmp = 0],
                                     MsgDeleteNotFound(cmd.name)))
                 ELSE Become([st EXCEPT !.pc = "download", !.work.found = TRUE])
          ELSE IF cmd.name \notin DOMAIN listing
            THEN Become(Throw(st, MsgDeleteNotFound(cmd.name)))
          ELSE Become([st EXCEPT !.pc = "patch", !.work.found = TRUE])

\* gh api /gists/<id>, the raw fetch of a truncated file, the emptiness check.
cliDownload ==
  /\ pc = "download"
  /\ \E ok \in BOOLEAN, truncated \in BOOLEAN, rawOk \in BOOLEAN :
       LET gone == IF cmd.op = "verify" THEN [Cur EXCEPT !.work.tmp = 0] ELSE Cur
       IN IF ~ok
            THEN Become(Throw(Did([gone EXCEPT !.work.transportFailed = TRUE],
                                  {"remoteRead"}), MsgBadJson))
          ELSE IF cmd.name \notin DOMAIN remote[1]
            THEN Become(Throw(Did(gone, {"remoteRead"}), MsgNotFoundInGist(cmd.name)))
          ELSE
            LET fd == fileData(remote[1][cmd.name],
                               truncated /\ remote[1][cmd.name].kind # "empty")
                data == base64Data(fd, rawOk)
                st == Did([Cur EXCEPT !.work.truncated = fd.truncated,
                                      !.work.transportFailed =
                                         @ \/ (fd.truncated /\ ~rawOk)],
                          {"remoteRead"} \cup
                          (IF fd.truncated THEN {"remoteRaw"} ELSE {}))
            IN IF data.kind = "empty"
                 THEN Become(Throw(IF cmd.op = "verify"
                                     THEN [st EXCEPT !.work.tmp = 0] ELSE st,
                                   MsgEmptyDownload))
               ELSE Become([st EXCEPT
                      !.pc = IF cmd.op = "restore" THEN "gate" ELSE "check",
                      !.work.blob = data,
                      !.work.downloaded = TRUE,
                      !.work.viaRaw = fd.truncated])

\* restoreProfile: the verification gate on the downloaded archive.
cliGate ==
  /\ pc = "gate"
  /\ LET v == verifyDownloadedProfile(work.blob, isMacOS)
         st == Did(Cur, {"tmp"})
     IN IF ~v.valid
          THEN Become(Throw([st EXCEPT !.work.gate = "invalid",
                                       !.work.issues = v.issues],
                            MsgVerificationFailed))
        ELSE Become([st EXCEPT !.pc = "copy", !.work.gate = "valid",
                               !.work.issues = v.issues])

\* The copy-over loop of restoreProfile: cp -r for the directory (into the
\* destination when that already exists), copyFile for the two files.
\* Archives nested deeper than LocalPaths reaches are cut off there.
restoreCopy(loc, tree) ==
  [q \in LocalPaths |->
     IF q \in {ConfigFile, BackupFile}
       THEN (IF tree[q] # 0 THEN tree[q] ELSE loc[q])
     ELSE IF tree[ClaudeDir] = 0 THEN loc[q]
     ELSE IF loc[ClaudeDir] = 0 THEN tree[q]
     ELSE IF /\ Len(q) >= 2
             /\ Tail(q) \in ArchivePaths
             /\ Under(ClaudeDir, Tail(q))
             /\ tree[Tail(q)] # 0
       THEN tree[Tail(q)]
     ELSE loc[q]]

\* restoreProfile after the gate: extract, copy over, keychain, clean up.
cliCopy ==
  /\ pc = "copy"
  /\ \E keychainOk \in BOOLEAN :
       LET tree == work.blob.tree
           st == Did(Cur, {"tmp", "localWrite"} \cup
                          (IF isMacOS /\ tree[MacosCreds] # 0
                             THEN {"keychainWrite"} ELSE {}))
       IN Become(Exit([st EXCEPT
            !.local = restoreCopy(local, tree),
            !.keychain = IF isMacOS /\ tree[MacosCreds] # 0 /\ keychainOk
                           THEN tree[MacosCreds] ELSE keychain,
            !.work.tmp = 0], 0))

\* hasEssentialFiles of verifyProfile: its two essential entries are the
\* same on every platform.
verifyProfileChecks(tree) == isFile(tree[CredsFile]) /\ isFile(tree[ConfigFile])

\* verifyProfile after the download: extract, check, report, clean up.
cliCheck ==
  /\ pc = "check"
  /\ LET st == Did([Cur EXCEPT !.work.tmp = 0], {"tmp"})
     IN IF work.blob.kind # "zip"
          THEN Become(Throw(st, MsgExtractFailed))
        ELSE Become(Exit([st EXCEPT !.work.gate =
                            IF verifyProfileChecks(work.blob.tree)
                              THEN "valid" ELSE "invalid"], 0))

\* deleteProfile: gh api PATCH with the file set to null.
cliPatch ==
  /\ pc = "patch"
  /\ \E ok \in BOOLEAN :
       LET st == Did(Cur, {"remoteDelete"})
       IN IF ok
            THEN Become(Exit([st EXCEPT
                                !.remote[1] = WithoutFile(@, cmd.name),
                                !.ledger.stored = WithoutFile(@, cmd.name)], 0))
          ELSE Become(Throw(st, MsgDeleteFailed))

\* A store that reports the failed gate and carries on.
cliVerifyLocalProceeds ==
  /\ pc = "verifyLocal"
  /\ LET v == verifyLocalFiles(local, keychain, isMacOS)
         st == Did([Cur EXCEPT !.work.gate = IF v.valid THEN "valid" ELSE "invalid"],
                   {"localRead"} \cup (IF isMacOS THEN {"keychainRead"} ELSE {}))
     IN Become([st EXCEPT !.pc = IF cmd.op = "store" THEN "build" ELSE "watchers"])

\* saveProfile and watchProfile: the gate on the live local state.
cliVerifyLocal ==
  /\ pc = "verifyLocal"
  /\ LET v == verifyLocalFiles(local, keychain, isMacOS)
         st == Did([Cur EXCEPT !.work.gate = IF v.valid THEN "valid" ELSE "invalid"],
                   {"localRead"} \cup (IF isMacOS THEN {"keychainRead"} ELSE {}))
     IN IF ~v.valid
          THEN Become(Exit(st, 1))
        ELSE Become([st EXCEPT !.pc = IF cmd.op = "store" THEN "build"
                                      ELSE "watchers"])

\* saveProfile: the temporary directory and the archive.
cliBuild ==
  /\ pc = "build"
  /\ LET st == Did(Cur, {"tmp", "localRead"})
     IN IF ~hasFiles(local, keychain, isMacOS)
          THEN Become(Exit(st, 1))
        ELSE Become([st EXCEPT !.pc = "gist", !.work.tmp = 1,
                               !.work.blob = Zip(buildArchive(local, keychain, isMacOS))])

\* saveProfile: gh gist edit --add.
cliUpload ==
  /\ pc = "upload"
  /\ \E up \in UploadResults :
       LET st == Did(Cur, {"remoteWrite"})
       IN IF up = "ok"
            THEN Become(Exit([st EXCEPT
                                !.remote[1] = WithFile(@, cmd.name, work.blob),
                                !.ledger.stored = WithFile(@, cmd.name, work.blob),
                                !.work.tmp = 0], 0))
          ELSE IF up = "http409"
            THEN Become(Throw(Did(st, {"ghAuth"}), MsgHttp409))
          ELSE Become(Throw(st, MsgUploadFailed))

\* watchProfile: one fs.watch per existing backup path; none left is fatal.
cliWatchers ==
  /\ pc = "watchers"
  /\ \E watchFails \in BOOLEAN :
       LET started == IF watchFails THEN {} ELSE watchers(local)
           st == Did(Cur, {"localRead"})
       IN IF started = {}
            THEN Become(Exit(st, 1))
          ELSE Become([st EXCEPT !.pc = "watching"])

\* The catch block of the command that threw.  restoreProfile prints its
\* troubleshooting list unless the message includes 'Profile not found';
\* verifyProfile announces the available profiles when the message includes
\* 'not found', but its listing reads gistId, which is not in scope in the
\* catch block: the ReferenceError is swallowed and no name is listed.
cliCatch ==
  /\ pc = "catch"
  /\ IF cmd.op = "store"
       THEN Become(Exit(IF MessageAlreadyDiagnosed(err) THEN Cur
                        ELSE Did(Cur, {"ghAuth"}), 1))
     ELSE IF cmd.op = "delete"
       THEN IF MessageIncludesNotFound(err)
              THEN Become([Cur EXCEPT !.pc = "catchGist", !.work.inCatch = TRUE])
            ELSE Become(Exit(Did(Cur, {"ghAuth"}), 1))
     ELSE IF cmd.op = "restore"
       THEN Become(Exit(IF MessageIncludesProfileNotFound(err) THEN Cur
                        ELSE [Cur EXCEPT !.work.report = "troubleshoot"], 1))
     ELSE Become(Exit(IF MessageIncludesNotFound(err)
                        THEN [Cur EXCEPT !.work.report = "notFound"]
                      ELSE [Cur EXCEPT !.work.report = "error"], 1))

\* listProfiles() after its findOrCreateGist: the list command, which then
\* returns, and the call in deleteProfile's catch block, which goes on to
\* process.exit(1).  A listing that fails yields empty output.
cliCatchList ==
  /\ pc = "catchList"
  /\ \E ok \in BOOLEAN :
       LET st == Did([Cur EXCEPT
                        !.work.names = IF ok THEN listProfiles(remote[1]) ELSE <<>>,
                        !.work.transportFailed = @ \/ ~ok],
                     {"remoteList"})
       IN Become(Exit(st, IF cmd.op = "delete" THEN 1 ELSE 0))

\* Local states a command can start in: no nested directory yet, a
\* credentials file only inside an existing ~/.claude.
InitLocals ==
  {t \in [LocalPaths -> {0, 1}] :
     /\ t[NestedDir] = 0
     /\ t[NestedCreds] = 0
     /\ t[CredsFile] # 0 => t[ClaudeDir] # 0}

\* Archives found in the remote store: built earlier from local states whose
\* contents were 2.
StoredTrees ==
  {t \in [ArchivePaths -> {0, 2}] :
     /\ t[NestedDir] = 0
     /\ t[NestedCreds] = 0
     /\ t[BackupFile] = 0
     /\ t[ClaudeDir] = 0 => t[CredsFile] = 0}

InitBlobs == {EmptyBlob, CorruptBlob} \cup {Zip(t) : t \in StoredTrees}

InitRemotes ==
  {<<>>, <<NoFiles>>}
  \cup {<<WithFile(NoFiles, Str_w, b)>> : b \in InitBlobs}
  \cup {<<WithFile(NoFiles, Str_hw, Zip([p \in ArchivePaths |->
                                          IF p \in {NestedDir, NestedCreds, BackupFile}
                                            THEN 0 ELSE 2]))>>}

\* The one-shot part of the state once watchProfile has set up its watchers.
CliWatching ==
  /\ isMacOS = FALSE
  /\ pc = "watching"
  /\ exitCode = -1
  /\ local = WatchedFull
  /\ keychain = 0
  /\ remote = <<NoFiles>>
  /\ io = {}
  /\ rejected = FALSE
  /\ err = NoErr
  /\ work = NoWork
  /\ local0 = local
  /\ keychain0 = keychain
  /\ remote0 = remote
  /\ ledger = [stored |-> IF Len(remote) > 0 THEN remote[1] ELSE NoFiles, runs |-> 1]

CliIdle ==
  /\ cmd = [op |-> "watch", name |-> Str_w, log |-> FALSE, verbose |-> FALSE]
  /\ CliWatching

\* Watch mode started with or without --verbose.
InitConsole ==
  /\ InitWatch
  /\ cmd \in [op : {"watch"}, name : {Str_w}, log : {FALSE}, verbose : BOOLEAN]
  /\ CliWatching

InitCli ==
  /\ InitWatch
  /\ cmd \in [op : Ops, name : ProfileNames, log : BOOLEAN, verbose : {FALSE}]
  /\ isMacOS \in BOOLEAN
  /\ pc = "main"
  /\ exitCode = -1
  /\ local \in InitLocals
  /\ keychain \in (IF isMacOS THEN {0, 1} ELSE {0})
  /\ remote \in InitRemotes
  /\ io = {}
  /\ rejected = FALSE
  /\ err = NoErr
  /\ work = NoWork
  /\ local0 = local
  /\ keychain0 = keychain
  /\ remote0 = remote
  /\ ledger = [stored |-> IF Len(remote) > 0 THEN remote[1] ELSE NoFiles, runs |-> 1]

NextCli ==
  \/ cliMain
  \/ cliValidate
  \/ cliVerifyLocal
  \/ cliBuild
  \/ cliGist
  \/ cliUpload
  \/ cliList
  \/ cliDownload
  \/ cliGate
  \/ cliCopy
  \/ cliCheck
  \/ cliPatch
  \/ cliWatchers
  \/ cliCatch
  \/ cliCatchList

SpecCli == InitCli /\ [][NextCli]_vars

\* ------------------------------------------------------------------------
\* Commands run one after the other on a fresh account: store, delete and
\* list of two names; a command that fails ends the run.
\* ------------------------------------------------------------------------
SeqLocals ==
  {WatchedFull, [p \in LocalPaths |-> IF WatchedFull[p] # 0 THEN 2 ELSE 0]}

SeqCmds == [op : {"store", "delete", "list"}, name : {Str_w, Str_hw}, log : {FALSE},
            verbose : {FALSE}]

InitSeq ==
  /\ InitWatch
  /\ cmd \in SeqCmds
  /\ isMacOS = FALSE
  /\ pc = "main"
  /\ exitCode = -1
  /\ local \in SeqLocals
  /\ keychain = 0
  /\ remote = <<>>
  /\ io = {}
  /\ rejected = FALSE
  /\ err = NoErr
  /\ work = NoWork
  /\ local0 = local
  /\ keychain0 = keychain
  /\ remote0 = remote
  /\ ledger = [stored |-> NoFiles, runs |-> 1]

\* The next invocation of the program, after one that succeeded.
cliAgain ==
  /\ pc = "done"
  /\ exitCode = 0
  /\ ledger.runs < MaxCommands
  /\ cmd' \in SeqCmds
  /\ local' \in SeqLocals
  /\ pc' = "main"
  /\ exitCode' = -1
  /\ io' = {}
  /\ rejected' = FALSE
  /\ err' = NoErr
  /\ work' = NoWork
  /\ local0' = local'
  /\ keychain0' = keychain
  /\ remote0' = remote
  /\ ledger' = [ledger EXCEPT !.runs = @ + 1]
  /\ UNCHANGED <<isMacOS, keychain, remote, sources, lastHash, pureVars>>
  /\ UNCHANGED watchVars

NextSeq ==
  \/ cliMain
  \/ cliValidate
  \/ cliVerifyLocal
  \/ cliBuild
  \/ cliGist
  \/ cliUpload
  \/ cliList
  \/ cliPatch
  \/ cliCatch
  \/ cliCatchList
  \/ cliAgain

SpecSeq == InitSeq /\ [][NextSeq]_vars

\* ------------------------------------------------------------------------
\* calculateFilesHash on its own: the sources change, the fingerprint is
\* taken again.
\* ------------------------------------------------------------------------
InitHash == InitWatch /\ CliIdle

NextHash ==
  \/ sourcesChange
  \/ takeFingerprint

SpecHash == InitHash /\ [][NextHash]_vars

\* ------------------------------------------------------------------------
\* The start-up on its own: any command line, .check, the dispatch
\* ------------------------------------------------------------------------
InitArgs ==
  /\ InitPure
  /\ CliIdle
  /\ \E a \in Argvs :
       invocation = [argv |-> a, stage |-> "check", ran |-> <<>>, exitCode |-> -1]

NextArgs ==
  \/ yargsCheck
  \/ mainDispatch

SpecArgs == InitArgs /\ [][NextArgs]_vars

\* ------------------------------------------------------------------------
\* checkArchiveSize on its own
\* ------------------------------------------------------------------------
SpecSize == InitHash /\ [][checkSize]_vars

\* The archive file filters on their own.
SpecFilter == InitHash /\ [][applyFilter]_vars

\* The scope checks on their own.
SpecScopes == InitHash /\ [][checkScopes]_vars

\* ------------------------------------------------------------------------
\* verifyDownloadedProfile on its own: a restore standing at the gate with
\* any downloaded blob, the checked entries absent, regular files or
\* directories, the optional backup present or not.
\* ------------------------------------------------------------------------
GateTrees ==
  {t \in [ArchivePaths -> {0, 2, DirEntry}] :
     /\ t[NestedDir] = 0
     /\ t[NestedCreds] = 0
     /\ t[BackupFile] # DirEntry
     /\ t[ClaudeDir] = (IF t[CredsFile] # 0 THEN 2 ELSE 0)}

InitGate ==
  /\ InitWatch
  /\ cmd \in [op : {"restore"}, name : {Str_w}, log : {FALSE}, verbose : {FALSE}]
  /\ isMacOS \in BOOLEAN
  /\ pc = "gate"
  /\ exitCode = -1
  /\ local = WatchedNone
  /\ keychain = 0
  /\ \E b \in {CorruptBlob, TruncatedBlob} \cup {Zip(t) : t \in GateTrees} :
       /\ remote = <<WithFile(NoFiles, Str_w, b)>>
       /\ work = [NoWork EXCEPT !.tmp = 1, !.blob = b, !.found = TRUE,
                                 !.downloaded = TRUE]
  /\ io = {"ghAuth", "remoteLookup", "remoteList", "remoteRead"}
  /\ rejected = FALSE
  /\ err = NoErr
  /\ local0 = local
  /\ keychain0 = keychain
  /\ remote0 = remote
  /\ ledger = [stored |-> IF Len(remote) > 0 THEN remote[1] ELSE NoFiles, runs |-> 1]

SpecGate == InitGate /\ [][cliGate]_vars


Init == InitWatch /\ CliIdle

Next ==
  \/ handleFileChange
  \/ debounceCallback
  \/ deferredCallback
  \/ SaveEnds
  \/ hashResolved
  \/ sigint
  \/ Tick

Spec == Init /\ [][Next]_vars

\* The same event loop, started with or without --verbose.
SpecConsole == InitConsole /\ [][Next]_vars

\* ------------------------------------------------------------------------
\* Watch mode in which every save attempt succeeds and no stop request
\* arrives; the event loop runs every due callback, pending I/O completes
\* and time passes.
\* ------------------------------------------------------------------------
SaveSucceeds ==
  /\ status = "running"
  /\ UNCHANGED pollVars
  /\ UNCHANGED <<cliFixed, local, sources, lastHash>>
  /\ \E h \in Saving : \E r \in SaveOutcomes(remote) :
       /\ r.result = "ok"
       /\ saveResolved(h, r.created)

NextLive ==
  \/ handleFileChange
  \/ debounceCallback
  \/ deferredCallback
  \/ SaveSucceeds
  \/ hashResolved
  \/ Tick

LiveSpec ==
  /\ Init
  /\ [][NextLive]_vars
  /\ WF_vars(debounceCallback)
  /\ WF_vars(deferredCallback)
  /\ WF_vars(SaveSucceeds)
  /\ WF_vars(hashResolved)
  /\ WF_vars(Tick)

\* ------------------------------------------------------------------------
\* Watch mode on macOS with credentials in the keychain, in which every save
\* attempt succeeds and no stop request arrives: the keychain check runs
\* every keychainCheckPeriod seconds and the credentials change once, while
\* a save is in flight.
\* ------------------------------------------------------------------------
InitKeychain ==
  /\ InitSchedule
  /\ keychainCheckInterval = StartTime + keychainCheckPeriod
  /\ sizeCheck = checkArchiveSize(0)
  /\ filterCheck = NoFilterCheck
  /\ authCheck = NoAuthCheck
  /\ invocation = [argv |-> [NoArgv EXCEPT !.watch = "w"], stage |-> "dispatched",
                   ran |-> <<"watch">>, exitCode |-> -1]
  /\ cmd = [op |-> "watch", name |-> Str_w, log |-> FALSE, verbose |-> FALSE]
  /\ isMacOS = TRUE
  /\ pc = "watching"
  /\ exitCode = -1
  /\ local = WatchedFull
  /\ keychain = 1
  /\ remote = <<NoFiles>>
  /\ io = {}
  /\ rejected = FALSE
  /\ err = NoErr
  /\ work = NoWork
  /\ local0 = local
  /\ keychain0 = keychain
  /\ remote0 = remote
  /\ ledger = [stored |-> NoFiles, runs |-> 1]
  /\ sources = StartSources
  /\ lastHash = Fingerprint(StartSources, 1, TRUE, <<".credentials.json">>)

NextKeychain ==
  \/ handleFileChange
  \/ debounceCallback
  \/ deferredCallback
  \/ SaveSucceeds
  \/ hashResolved
  \/ keychainChanges
  \/ keychainCheck
  \/ Tick

SpecKeychain == InitKeychain /\ [][NextKeychain]_vars

\* ------------------------------------------------------------------------
\* Watch mode with the watchers set up at start-up: ~/.claude and
\* ~/.claude.json exist then, ~/.claude.json.backup does not.  Every save
\* attempt succeeds and no stop request arrives.
\* ------------------------------------------------------------------------
NextWatchers ==
  \/ fsChange
  \/ debounceCallback
  \/ deferredCallback
  \/ SaveSucceeds
  \/ hashResolved
  \/ Tick

SpecWatchers == Init /\ [][NextWatchers]_vars

\* ------------------------------------------------------------------------
\* Claims
\* ------------------------------------------------------------------------

\* C1: in watch mode at most one execution of saveProfileSilent is in
\* progress at any time.
C1_SingleFlight == Cardinality(Saving) <= 1

\* C2: once a save has completed successfully at t0, no later save starts
\* before t0 + minSaveInterval.
C2_ThrottleFloor ==
  \A h \in Saving :
    h.doneBefore >= 0 => h.started >= h.doneBefore + minSaveInterval

\* C3: when saves succeed and timers fire, every change notification is
\* eventually followed by a save that starts after it.
C3_EventuallySaved == unsaved ~> ~unsaved

\* C4: from a quiet state, a run of notifications each less than
\* debounceDelay after the previous one starts exactly one save, and that
\* save starts no earlier than debounceDelay after the last notification.
C4_BurstOneSave ==
  burst.ok =>
    /\ burst.starts <= 1
    /\ burst.starts = 1 => burst.startedAt >= burst.last + debounceDelay
    /\ (status = "running" /\ now > burst.last + debounceDelay) => burst.starts = 1

\* C4 witness: a run of at least two notifications has started its save.
C4_Witness == burst.ok /\ burst.n >= 2 /\ burst.starts = 1

\* The restore gate's requirement, stated on the blob: it is an archive and
\* holds the configuration file and the platform's credentials entry.
RestorableBlob(blob, mac) ==
  /\ blob.kind = "zip"
  /\ blob.tree[ConfigFile] # 0
  /\ (IF mac THEN blob.tree[MacosCreds] # 0 ELSE blob.tree[CredsFile] # 0)

\* C5: restore writes to a watched path or to the keychain only after the
\* profile was found and downloaded and the gate accepted its extracted
\* archive; a restore that fails leaves the local state as it was.
C5_RestoreGated ==
  cmd.op = "restore" =>
    /\ (io \cap {"localWrite", "keychainWrite"} # {} \/ local # local0
          \/ keychain # keychain0)
         => /\ work.found
            /\ work.downloaded
            /\ work.gate = "valid"
            /\ RestorableBlob(work.blob, isMacOS)
    /\ (exitCode = 1 \/ pc = "catch") => local = local0 /\ keychain = keychain0

\* C5 witness: a restore has copied an accepted archive over the local state.
C5_Witness == cmd.op = "restore" /\ exitCode = 0 /\ local # local0

\* C6: when the local gate reports valid=false, store builds no archive and
\* uploads nothing: it has ended in error with the remote store unchanged.
C6_StoreGated ==
  (cmd.op = "store" /\ work.gate = "invalid") =>
    /\ pc = "done"
    /\ exitCode = 1
    /\ work.blob = EmptyBlob
    /\ work.tmp = 0
    /\ io \cap RemoteKinds = {}
    /\ remote = remote0

\* C6 witness: a store has been stopped by the local gate.
C6_Witness == cmd.op = "store" /\ work.gate = "invalid" /\ pc = "done"

\* C7: an invocation whose profile name was rejected performs no
\* remote-store operation and leaves the remote store and the local files
\* unchanged.
C7_RejectedNoRemoteOp ==
  rejected =>
    /\ io \cap RemoteKinds = {}
    /\ remote = remote0
    /\ local = local0

\* C8: no failure of a save attempt terminates the watch process.
C8_SaveFailureKeepsWatching == status # "exit1"

\* C9: a stop request received while a save is in flight does not abort
\* that save: when the process has ended on SIGINT no save is unfinished.
C9_StopLetsSaveFinish == status = "exit0" => Saving = {}

C11_FailureKeepsBaseline ==
  failLog.how # "none" => failLog.baseAfter = failLog.baseBefore

\* C11 witness: an attempt has failed into its catch block after an earlier
\* save had succeeded.
C11_Witness == failLog.how = "caught" /\ failLog.baseBefore > 0

\* C12: no store and no watch-mode save uploads an archive without entries:
\* every stored profile that is an empty archive was already there before.
C12_NoEmptyUpload ==
  \A i \in 1..Len(remote) : \A n \in DOMAIN remote[i] :
    remote[i][n] = Zip(EmptyArchive) =>
      \E j \in 1..Len(remote0) :
        n \in DOMAIN remote0[j] /\ remote0[j][n] = Zip(EmptyArchive)

\* C13: after a successful restore every file of the stored snapshot is at
\* its original local path with the stored content, whatever the local state
\* was when the restore began.
C13_RoundTrip ==
  (cmd.op = "restore" /\ pc = "done" /\ exitCode = 0) =>
    \A p \in {CredsFile, ConfigFile, BackupFile} :
      work.blob.tree[p] # 0 => local[p] = work.blob.tree[p]

\* C14: in restore and verify the archive that is decoded is the stored
\* content, fetched through the raw locator exactly when the remote read
\* reported truncated=true and taken from the inline content otherwise; an
\* empty result is an error and nothing is decoded.
C14_TruncatedUsesRaw ==
  cmd.op \in {"restore", "verify"} =>
    /\ work.downloaded =>
         /\ work.blob = remote[1][cmd.name]
         /\ work.blob.kind # "empty"
         /\ work.viaRaw = work.truncated
         /\ ("remoteRaw" \in io) = work.truncated
    /\ err = MsgEmptyDownload =>
         /\ ~work.downloaded
         /\ work.blob = EmptyBlob
         /\ work.gate = "none"
         /\ local = local0

\* C14 witness: a restore has downloaded a truncated file's archive.
C14_Witness ==
  cmd.op = "restore" /\ work.downloaded /\ work.truncated /\ work.blob.kind = "zip"

\* The entries the platform makes essential, and the issue text for each.
EssentialEntries(mac) == {ConfigFile} \cup (IF mac THEN {MacosCreds} ELSE {CredsFile})
IssueFor(p) ==
  IF p = ConfigFile THEN "Missing: Claude configuration"
  ELSE IF p = MacosCreds THEN "Missing: Claude credentials (macOS)"
  ELSE "Missing: Claude credentials (file)"

\* C15: verifyDownloadedProfile returns valid exactly when every
\* platform-essential entry is a regular file of the extracted tree, whatever
\* the optional entries are; when the archive extracts and the result is
\* invalid the issues name every missing essential entry; a blob that does
\* not extract is invalid.
C15_GateExact ==
  work.gate # "none" =>
    LET missing == {p \in EssentialEntries(isMacOS) :
                      work.blob.tree[p] \in {0, DirEntry}}
    IN /\ (work.gate = "valid") = (work.blob.kind = "zip" /\ missing = {})
       /\ work.blob.kind = "zip" => work.issues = {IssueFor(p) : p \in missing}
       /\ work.blob.kind # "zip" => work.gate = "invalid"

\* C15 witness: the gate has rejected an archive whose configuration entry
\* is a directory.
C15_Witness ==
  /\ work.gate = "invalid"
  /\ work.blob.kind = "zip"
  /\ work.blob.tree[ConfigFile] = DirEntry

\* C16: the verify command reports a downloaded archive valid exactly when
\* the restore gate accepts it, on every platform.
C16_VerifySameAsGate ==
  (cmd.op = "verify" /\ work.gate # "none") =>
    (work.gate = "valid") = verifyDownloadedProfile(work.blob, isMacOS).valid

\* C17: restore and verify of a name that has no stored entry end, when no
\* remote operation failed, in the profile-not-found report with the
\* available profiles listed; and no run in which a remote operation failed
\* ends in the profile-not-found report.
C17_NotFoundDistinguished ==
  (cmd.op \in {"restore", "verify"} /\ pc = "done" /\ "remoteLookup" \in io) =>
    /\ (/\ ~work.transportFailed
        /\ Len(remote0) > 0 => cmd.name \notin DOMAIN remote0[1])
         => work.report = "notFound" /\ work.listed
    /\ work.transportFailed => work.report # "notFound"

\* C18: store, restore, delete and verify end with a non-zero exit status
\* whenever they met an error: a rejected name, a thrown Error (not found,
\* transport, permission, extraction, verification), or a downloaded or
\* local profile found to lack an essential entry.
C18_ErrorsExitNonZero ==
  (/\ cmd.op \in {"store", "restore", "delete", "verify"}
   /\ pc = "done"
   /\ (rejected \/ err # NoErr \/ work.gate = "invalid"))
    => exitCode # 0

\* C19: after any sequence of successful store and delete commands, list
\* reports exactly the names stored and not deleted since, each once; and a
\* store under a name leaves that name with the content just stored.
C19_ListMatchesStores ==
  /\ (cmd.op = "list" /\ pc = "done" /\ exitCode = 0 /\ ~work.transportFailed) =>
       /\ {work.names[i] : i \in 1..Len(work.names)} = DOMAIN ledger.stored
       /\ Len(work.names) = Cardinality(DOMAIN ledger.stored)
  /\ (cmd.op = "store" /\ pc = "done" /\ exitCode = 0) =>
       /\ cmd.name \in DOMAIN remote[1]
       /\ remote[1][cmd.name] = work.blob

\* C20: the stream the digest is taken over is the same for two states of
\* the watched sources exactly when they hold the same watched paths with
\* the same contents; a file outside the watched paths has no influence.
C20_FingerprintExact ==
  (\E listing \in Listings(sources) :
     calculateFilesHash(sources, keychain, isMacOS, listing) = lastHash.stream)
    = (\A p \in WatchedPaths : sources[p] = lastHash.of[p])

\* C21: for a fixed state of the sources and the keychain the stream the
\* digest is taken over is the same for every order in which readdir lists
\* the entries of ~/.claude; a missing source contributes nothing.
C21_OrderIndependent ==
  /\ \A listing \in Listings(lastHash.of) :
       calculateFilesHash(lastHash.of, keychain, isMacOS, listing) = lastHash.stream
  /\ (\A p \in WatchedPaths : ~lastHash.of[p].exists) => lastHash.stream = <<>>

\* C21 witness: the fingerprint was taken of a directory with two files of
\* different content, which readdir can list in two orders.
C21_Witness ==
  /\ Cardinality(Listings(lastHash.of)) = 2
  /\ lastHash.of[CredsFile].bytes # lastHash.of[SettingsFile].bytes

Named(argv) ==
  {MainOptionNames[i] : i \in {j \in 1..Len(MainOptionNames) :
                                 argv[MainOptionNames[j]] # "undefined"}}

\* C23: a command line is accepted exactly when it names one main option,
\* or --watch with exactly one of --restore / --store, in which case the
\* restore or store runs first and watch mode afterwards; every other
\* combination of two or more main options is rejected with a non-zero exit
\* and runs nothing.
C23_OneMainOperation ==
  LET named == Named(invocation.argv)
      withWatch == named \in {{"restore", "watch"}, {"store", "watch"}}
  IN invocation.stage # "check" =>
       /\ invocation.stage \in {"main", "dispatched"}
            => (Cardinality(named) = 1 \/ withWatch)
       /\ withWatch =>
            /\ invocation.stage \in {"main", "dispatched"}
            /\ invocation.stage = "dispatched"
                 => /\ Len(invocation.ran) = 2
                    /\ invocation.ran[1] \in {"restore", "store"}
                    /\ invocation.ran[2] = "watch"
       /\ (Cardinality(named) >= 2 /\ ~withWatch)
            => /\ invocation.stage = "rejected"
               /\ invocation.exitCode # 0
               /\ invocation.ran = <<>>

\* C24: a deferred save is scheduled for exactly the remaining time,
\* minSaveInterval minus the time since lastSaveTime; when no further
\* notification arrives (deferLog is kept only until the next one) its
\* callback runs at lastSaveTime + minSaveInterval and starts the save.
C24_DeferredFlush ==
  deferLog.armed =>
    /\ deferLog.wait = minSaveInterval
    /\ deferLog.due = deferLog.base + minSaveInterval
    /\ deferLog.fired # "no" =>
         /\ deferLog.fired = "onTime"
         /\ deferLog.started
    /\ (status = "running" /\ now > deferLog.due) => deferLog.fired # "no"

\* C25: a watch-mode save is started only when the fingerprint of the
\* watched content differs from lastHash, the fingerprint taken at startup
\* or after the last successful save.
C25_SaveOnlyWhenChanged == \A h \in Saving : h.changed

\* C26: on macOS, after the keychain credentials changed while a save was
\* in flight, the first keychain check that follows finds the fingerprint
\* changed and triggers a save, unless the stored profile already holds the
\* new credentials.
C26_KeychainChangeSaved ==
  pollLog = "unchanged" =>
    /\ cmd.name \in DOMAIN remote[1]
    /\ remote[1][cmd.name].tree[MacosCreds] = keychain

\* C27: without --verbose, console.log and console.error are the original
\* functions whenever no silent save is in progress: each attempt that has
\* ended, by success or by failure, alone or overlapping another, has put
\* them back.
C27_ConsoleRestored ==
  (status = "running" /\ ~cmd.verbose /\ Saving = {}) => console = "original"

\* C28: the watch-mode save counter always equals the number of save attempts
\* that have completed successfully (one more per successful save, unchanged
\* by a failed one, never smaller than before).
C28_CountsSuccesses == saveCount = successes

\* C29: at every moment of watch mode at most one scheduler timer (settle or
\* deferred) is armed and pendingSaveTimeout refers to it; so the stop
\* request leaves no timer armed, and no save starts once it was handled.
C29_OneTimer ==
  /\ [](/\ Cardinality(timers) <= 1
        /\ timers \subseteq {pendingSaveTimeout}
        /\ status = "exit0" => timers = {})
  /\ [][status = "exit0" => Saving' \subseteq Saving]_vars

\* The stop request arrived while a deferred timer was armed.
C29_Witness ==
  /\ status = "exit0"
  /\ pendingSaveTimeout.kind = "deferred"
  /\ pendingSaveTimeout.due > now
  /\ timers = {}

\* C30: on a given platform, every archive store uploads after its local
\* gate passed, the local state being the same at the gate and at the
\* archive build, is accepted by the restore gate on that platform.
C30_StoredIsRestorable ==
  (cmd.op = "store" /\ work.gate = "valid" /\ exitCode = 0) =>
    /\ cmd.name \in DOMAIN remote[1]
    /\ remote[1][cmd.name] = Zip(buildArchive(local0, keychain0, isMacOS))
    /\ verifyDownloadedProfile(remote[1][cmd.name], isMacOS).valid

\* The gists that existed before the command, as they are now: every one
\* still holds, under every name but the command's, what it held.
OtherEntriesKept ==
  /\ Len(remote) >= Len(remote0)
  /\ \A i \in 1..Len(remote0) :
       LET before == remote0[i]
           after == remote[Len(remote) - Len(remote0) + i]
       IN \A m \in (DOMAIN before \cup DOMAIN after) \ {cmd.name} :
            /\ m \in DOMAIN before
            /\ m \in DOMAIN after
            /\ before[m] = after[m]
  /\ \A i \in 1..(Len(remote) - Len(remote0)) : DOMAIN remote[i] \subseteq {cmd.name}

\* C31: store(n) and delete(n) change only the remote entry named for n, the
\* stored content of every other profile being unchanged, and delete of a
\* name that is not stored fails without performing any remote write.
C31_OnlyOwnEntry ==
  cmd.op \in {"store", "delete"} =>
    /\ OtherEntriesKept
    /\ (cmd.op = "delete" /\ pc = "done"
          /\ (remote0 = <<>> \/ cmd.name \notin DOMAIN remote0[1]))
         => /\ exitCode = 1
            /\ io \cap {"remoteWrite", "remoteDelete"} = {}
            /\ remote = remote0

\* C32: list, verify and restore never modify the remote store: whether they
\* succeed or fail, and whether or not a backup gist existed, the gists and
\* their entries are the same as before.
C32_ReadOnlyCommands ==
  cmd.op \in {"list", "verify", "restore"} =>
    /\ remote = remote0
    /\ io \cap {"remoteWrite", "remoteDelete"} = {}

\* C33: after any sequence of operations, also ones whose lookup fails or
\* returns no match although a backup gist exists, at most one gist carries
\* the backup description, so every profile stored and not deleted since is
\* in the gist later commands look up.
C33_OneBackupGist ==
  /\ Len(remote) <= 1
  /\ \A n \in DOMAIN ledger.stored :
       /\ Len(remote) > 0
       /\ n \in DOMAIN remote[1]
       /\ remote[1][n] = ledger.stored[n]

\* C34: every temporary directory a store, restore or verify created has
\* been removed by the time the command ends, on success and on every
\* failure path.
C34_TempRemoved == pc = "done" => work.tmp = 0

\* C35: every watched source is monitored for the whole of watch mode
\* whether or not it existed at start-up: creating or changing any of them
\* produces a change notification (and with it, later, a save).
C35_AllSourcesWatched ==
  [][(\E p \in LocalPaths : local'[p] # local[p]) => changes' = changes + 1]_vars

\* C36: the archive file filter excludes every path under projects/ and
\* every path with a .claude component that is not the first component, at
\* any depth, and includes every other path, the files directly under the
\* root .claude/ among them.
C36_FilterExact ==
  LET parts == pathParts(filterCheck.file)
      excluded == \/ Len(parts) > 1 /\ parts[1] = <<"projects">>
                  \/ \E i \in 2..Len(parts) : parts[i] = <<".claude">>
  IN /\ filterCheck.filteredFiles = ~excluded
     /\ filterCheck.testFiltering = ~excluded

\* C37: the start-up authentication check warns that the token lacks the
\* gist scope exactly when gist is not one of the scopes on the token-scopes
\* line, whatever its position, and getDetailedAuthStatus reports
\* hasGistScope exactly when gist is one of them.
C37_GistScopeDetected ==
  LET listed == \E i \in 1..Len(authCheck.line.scopes) :
                  authCheck.line.scopes[i] = <<"gist">>
  IN /\ authCheck.warned = ~listed
     /\ authCheck.hasGistScope = listed

\* C38: for every archive size n in bytes the estimate ceil(1.33 * n) of the
\* size check is at least the length 4 * ceil(n / 3) of the base64 text that
\* is uploaded, so an archive classified withinLimit does not exceed the
\* API ceiling once encoded.
C38_EstimateCoversUpload ==
  /\ sizeCheck.actualUploadSize >= base64Length(sizeCheck.size)
  /\ sizeCheck.withinLimit => base64Length(sizeCheck.size) <= GIST_SIZE_LIMIT_API

====
